---------------------------- MODULE Spec2Model ----------------------------
(***************************************************************************)
(* rom2msx: conversion of an MSX ROM into the on-flash layout of the       *)
(* MegaSCC, ESE-RC755 and Simple64K mappers (src/rom2msx.cpp).             *)
(*                                                                         *)
(* The model follows main() statement by statement.  One run of the        *)
(* program is one behaviour: option parsing, read_file, padding, the       *)
(* capacity checks, the start bank, the placement loop, write_file and the *)
(* optional --verify pass.  die() ends the run: it sets err and msg and    *)
(* no later step is enabled.                                               *)
(*                                                                         *)
(* Sizes are scaled: one KiB of the program is BytesPerKiB bytes of the    *)
(* model, so a bank is 8 * BytesPerKiB bytes and a 512 KiB chip is         *)
(* 512 * BytesPerKiB bytes.  Every size of the program is a multiple of    *)
(* 1024 except the raw length of the input file, which the model takes     *)
(* both on and off bank boundaries.                                        *)
(***************************************************************************)
EXTENDS Integers, Sequences, FiniteSets

(***************************************************************************)
(* Bounds of the model.                                                    *)
(***************************************************************************)
\* bytes of the model per KiB of the program (1024 in the program)
BytesPerKiB == 1
\* the output file is modified at most MaxTamper times before --verify reads it
MaxTamper == 2

(***************************************************************************)
(* Constants of the program.                                               *)
(***************************************************************************)
\* BANK_SIZE = 0x2000, 8 KiB
BANK_SIZE == 8 * BytesPerKiB
\* the erased state of flash, the fill of padding and of the output buffer
FILL == 255
\* int chip_kib = 128
DEFAULT_CHIP_KIB == 128
\* int s64k_addr = -1: no --addr given
NO_ADDR == -1
\* Simple64K: the 64 KiB window is 8 banks
WINDOW_BANKS == 8
\* Simple64K auto selection: size_kib <= 32 starts at block 2
AUTO_SMALL_KIB == 32
AUTO_SMALL_START == 2
\* --addr must be 0..7
ADDR_MAX == 7

ChipSizes == {64, 128, 256, 512}

(***************************************************************************)
(* The inputs of a run: the command line and the input file.               *)
(***************************************************************************)
\* --chip: absent (the default, 128) and the other supported sizes
ChipOpts == {<<>>} \cup {<<[opt |-> "--chip", num |-> n]>> : n \in {64, 256, 512}}
\* --type: absent (the default, mega), rc755 and s64k
TypeOpts == {<<>>} \cup {<<[opt |-> "--type", str |-> s]>> : s \in {"rc755", "s64k"}}
\* --addr: absent, 0..7, and the two nearest values out of the domain
AddrOpts == {<<>>} \cup {<<[opt |-> "--addr", num |-> n]>> : n \in -1..(ADDR_MAX + 1)}
VerifyOpts == {<<>>, <<[opt |-> "--verify"]>>}

\* raw lengths around every limit of the program: the empty ROM, the 32 KiB
\* threshold (4 banks), the Simple64K window (8) and the chip sizes (8, 16, 32, 64):
\* on a bank boundary, one byte past it, and one byte short of it
RawLengths ==
    {k * BANK_SIZE : k \in {0, 4, 8, 16, 20, 32, 64}}
      \cup {k * BANK_SIZE + 1 : k \in {0, 1, 4, 8, 16, 64}}
      \cup {k * BANK_SIZE - 1 : k \in {3, 8}}
\* pattern 0 is a ROM of 0xFF only, pattern 1 a ROM whose banks all differ
Patterns == {0, 1}

\* byte i of an input file of pattern p; pattern 0 is a ROM of 0xFF only
RomByte(p, i) == IF p = 0 THEN FILL ELSE (i * (2 * p + 1) + p) % 256
FileBytes(f) == [i \in 1..f.len |-> RomByte(f.pat, i - 1)]

\* what the output path holds before the run
OldSink == <<0, 1>>

VARIABLES
    pc,         \* the statement of main() the run is at
    argv,       \* the options after the two paths
    in_file,    \* the input file: its length and byte pattern
    out_file,   \* the bytes of the output path
    chip_kib, type, s64k_addr, verify,   \* the parsed options
    rom,        \* the input buffer
    in_banks,
    out,        \* the output buffer
    start_bank,
    vb,         \* --verify: the output file as read back
    tampers,    \* how often the output file was modified after write_file
    err,        \* "none", or the kind of error die() ended the run with
    msg         \* die()'s message: its text and the numbers put into it

vars == <<pc, argv, in_file, out_file, chip_kib, type, s64k_addr, verify,
          rom, in_banks, out, start_bank, vb, tampers, err, msg>>

NoMsg == [text |-> "", args |-> <<>>]
Ok == [err |-> "none", msg |-> NoMsg]
Die(kind, text) == [err |-> kind, msg |-> [text |-> text, args |-> <<>>]]
DieNum(kind, text, n) == [err |-> kind, msg |-> [text |-> text, args |-> <<n>>]]

(***************************************************************************)
(* Option parsing (lines 85-110).                                          *)
(***************************************************************************)
RECURSIVE ParseOpts(_, _, _)
ParseOpts(args, i, st) ==
    IF i > Len(args) \/ st.err # "none" THEN st
    ELSE LET a == args[i] IN
         ParseOpts(args, i + 1,
           CASE a.opt = "--chip" ->
                  IF a.num \in ChipSizes
                  THEN [st EXCEPT !.chip_kib = a.num]
                  ELSE [st EXCEPT !.chip_kib = a.num, !.err = "UsageError",
                                  !.text = "Unsupported --chip value (use 64, 128, 256, or 512)"]
             [] a.opt = "--type" ->
                  IF a.str \in {"mega", "scc", "megascc"} THEN [st EXCEPT !.type = "MegaSCC"]
                  ELSE IF a.str = "rc755" THEN [st EXCEPT !.type = "RC755"]
                  ELSE IF a.str \in {"s64k", "simple64k"} THEN [st EXCEPT !.type = "Simple64K"]
                  ELSE [st EXCEPT !.err = "UsageError",
                                  !.text = "Unknown --type value (use mega|rc755|s64k)"]
             [] a.opt = "--addr" ->
                  IF a.num < 0 \/ a.num > ADDR_MAX
                  THEN [st EXCEPT !.s64k_addr = a.num, !.err = "RangeError",
                                  !.text = "--addr must be 0..7"]
                  ELSE [st EXCEPT !.s64k_addr = a.num]
             [] a.opt = "--verify" -> [st EXCEPT !.verify = TRUE]
             [] OTHER -> [st EXCEPT !.err = "UsageError", !.text = "Unknown option"])

Parse ==
    /\ pc = "parse" /\ err = "none"
    /\ LET st == ParseOpts(argv, 1,
                   [chip_kib |-> chip_kib, type |-> type, s64k_addr |-> s64k_addr,
                    verify |-> verify, err |-> "none", text |-> ""])
       IN /\ chip_kib' = st.chip_kib
          /\ type' = st.type
          /\ s64k_addr' = st.s64k_addr
          /\ verify' = st.verify
          /\ err' = st.err
          /\ msg' = [text |-> st.text, args |-> <<>>]
          /\ pc' = IF st.err = "none" THEN "read" ELSE pc
    /\ UNCHANGED <<argv, in_file, out_file, rom, in_banks, out, start_bank, vb, tampers>>

chip_bytes == chip_kib * BytesPerKiB

(***************************************************************************)
(* read_file (lines 47-60, 115): the file is read whole, or die().         *)
(***************************************************************************)
ReadFile ==
    /\ pc = "read" /\ err = "none"
    /\ \E readable \in BOOLEAN :
         IF readable
         THEN /\ rom' = FileBytes(in_file)
              /\ pc' = "pad"
              /\ UNCHANGED <<err, msg>>
         ELSE /\ err' = "IOError"
              /\ msg' = [text |-> "Cannot open input file", args |-> <<>>]
              /\ UNCHANGED <<rom, pc>>
    /\ UNCHANGED <<argv, in_file, out_file, chip_kib, type, s64k_addr, verify,
                   in_banks, out, start_bank, vb, tampers>>

(***************************************************************************)
(* Padding to a multiple of 8 KiB with 0xFF (lines 117-122).               *)
(***************************************************************************)
Resize(buf, n, fill) ==
    IF n <= Len(buf) THEN SubSeq(buf, 1, n) ELSE buf \o [i \in 1..(n - Len(buf)) |-> fill]

\* a padding that forgets the test: a whole bank is added to a ROM that needs none
PadRomAlways(r) ==
    Resize(r, (Len(r) \div BANK_SIZE + 1) * BANK_SIZE, FILL)

PadRom(r) ==
    IF Len(r) % BANK_SIZE # 0
    THEN LET padded == ((Len(r) + BANK_SIZE - 1) \div BANK_SIZE) * BANK_SIZE
         IN Resize(r, padded, FILL)
    ELSE r

BankCount(r) == Len(r) \div BANK_SIZE

Pad ==
    /\ pc = "pad" /\ err = "none"
    /\ rom' = PadRom(rom)
    /\ in_banks' = BankCount(rom')
    /\ pc' = "check"
    /\ UNCHANGED <<argv, in_file, out_file, chip_kib, type, s64k_addr, verify,
                   out, start_bank, vb, tampers, err, msg>>

(***************************************************************************)
(* The capacity checks (lines 124-133).                                    *)
(***************************************************************************)
\* a capacity check without the Simple64K window
CapacityCheckChipOnly(t, romSize, banks, chipBytes) ==
    IF romSize > chipBytes
    THEN Die("CapacityError", "Input ROM (after 8 KiB padding) is larger than selected chip size")
    ELSE Ok

CapacityCheck(t, romSize, banks, chipBytes) ==
    IF t = "Simple64K" /\ banks > WINDOW_BANKS
    THEN Die("CapacityError", "ROM too large for Simple64K (max 64 KiB)")
    ELSE IF romSize > chipBytes
    THEN Die("CapacityError", "Input ROM (after 8 KiB padding) is larger than selected chip size")
    ELSE Ok

CheckCapacity ==
    /\ pc = "check" /\ err = "none"
    /\ LET c == CapacityCheck(type, Len(rom), in_banks, chip_bytes)
       IN /\ err' = c.err
          /\ msg' = c.msg
          /\ pc' = IF c.err = "none" THEN "resolve" ELSE pc
    /\ UNCHANGED <<argv, in_file, out_file, chip_kib, type, s64k_addr, verify,
                   rom, in_banks, out, start_bank, vb, tampers>>

(***************************************************************************)
(* The output buffer and the start bank (lines 135-169).                   *)
(***************************************************************************)
Erased(n) == [i \in 1..n |-> FILL]

\* MegaSCC and RC755 (lines 142-149); here RC755 starts at --addr when it is given
LinearStartAddr(t, addr) == IF t = "RC755" /\ addr >= 0 THEN addr ELSE 0

LinearStart(t, addr) == 0

\* the test of line 153, off by one
HintExceedsOffByOne(addr, banks) == addr + banks >= WINDOW_BANKS

HintExceeds(addr, banks) == addr + banks > WINDOW_BANKS

\* the auto selection (lines 159-161) with < for <=
AutoStartStrict(size_kib) == IF size_kib < AUTO_SMALL_KIB THEN AUTO_SMALL_START ELSE 0
\* the auto selection with its first branch only
AutoStartAlwaysTwo(size_kib) == AUTO_SMALL_START

AutoStart(size_kib) == IF size_kib <= AUTO_SMALL_KIB THEN AUTO_SMALL_START ELSE 0

StartBank(t, addr, romSize, banks) ==
    CASE t = "MegaSCC" -> [start_bank |-> LinearStart(t, addr), die |-> Ok]
      [] t = "RC755" -> [start_bank |-> LinearStart(t, addr), die |-> Ok]
      [] t = "Simple64K" ->
           IF addr >= 0
           THEN IF HintExceeds(addr, banks)
                THEN [start_bank |-> 0,
                      die |-> Die("RangeError", "Simple64K: --addr + bank_count exceeds 8 banks")]
                ELSE [start_bank |-> addr, die |-> Ok]
           ELSE LET size_kib == romSize \div BytesPerKiB
                    auto == AutoStart(size_kib)
                IN IF auto + banks > WINDOW_BANKS
                   THEN [start_bank |-> auto,
                         die |-> Die("RangeError",
                                     "Simple64K: auto start doesn't fit; try a smaller ROM or pass --addr")]
                   ELSE [start_bank |-> auto, die |-> Ok]

\* the output file opened, and so truncated, before the start bank is computed
ResolveOpensOutputFirst ==
    /\ pc = "resolve" /\ err = "none"
    /\ out' = Erased(chip_bytes)
    /\ out_file' = <<>>
    /\ LET s == StartBank(type, s64k_addr, Len(rom), in_banks)
       IN /\ start_bank' = s.start_bank
          /\ err' = s.die.err
          /\ msg' = s.die.msg
          /\ pc' = IF s.die.err = "none" THEN "place" ELSE pc
    /\ UNCHANGED <<argv, in_file, chip_kib, type, s64k_addr, verify,
                   rom, in_banks, vb, tampers>>

Resolve ==
    /\ pc = "resolve" /\ err = "none"
    /\ out' = Erased(chip_bytes)
    /\ LET s == StartBank(type, s64k_addr, Len(rom), in_banks)
       IN /\ start_bank' = s.start_bank
          /\ err' = s.die.err
          /\ msg' = s.die.msg
          /\ pc' = IF s.die.err = "none" THEN "place" ELSE pc
    /\ UNCHANGED <<argv, in_file, out_file, chip_kib, type, s64k_addr, verify,
                   rom, in_banks, vb, tampers>>

(***************************************************************************)
(* The placement loop (lines 171-180).                                     *)
(***************************************************************************)
\* std::memcpy(dst.data() + dst_off, src.data() + src_off, n)
Memcpy(dst, dst_off, src, src_off, n) ==
    SubSeq(dst, 1, dst_off) \o SubSeq(src, src_off + 1, src_off + n)
        \o SubSeq(dst, dst_off + n + 1, Len(dst))

RECURSIVE PlaceFrom(_, _, _, _, _)
PlaceFrom(bank, o, r, start, banks) ==
    IF bank >= banks THEN [out |-> o, die |-> Ok]
    ELSE LET dst_bank == start + bank
             dst_off == dst_bank * BANK_SIZE
             src_off == bank * BANK_SIZE
         IN IF dst_off + BANK_SIZE > Len(o)
            THEN [out |-> o,
                  die |-> Die("OverflowError",
                              "Output overflow: bank placement exceeds selected chip size")]
            ELSE PlaceFrom(bank + 1, Memcpy(o, dst_off, r, src_off, BANK_SIZE), r, start, banks)

\* a placement that ignores the start bank
PlaceBanksFromZero(o, r, start, banks) == PlaceFrom(0, o, r, 0, banks)

PlaceBanks(o, r, start, banks) == PlaceFrom(0, o, r, start, banks)

Place ==
    /\ pc = "place" /\ err = "none"
    /\ LET p == PlaceBanks(out, rom, start_bank, in_banks)
       IN /\ out' = p.out
          /\ err' = p.die.err
          /\ msg' = p.die.msg
          /\ pc' = IF p.die.err = "none" THEN "write" ELSE pc
    /\ UNCHANGED <<argv, in_file, out_file, chip_kib, type, s64k_addr, verify,
                   rom, in_banks, start_bank, vb, tampers>>

(***************************************************************************)
(* write_file (lines 62-67, 182) and the report (lines 184-193, 220).      *)
(* The file is opened with trunc; a failed open leaves it as it was, a     *)
(* failed write leaves it truncated.                                       *)
(***************************************************************************)
WriteFile ==
    /\ pc = "write" /\ err = "none"
    /\ \E io \in {"ok", "open fails", "write fails"} :
         CASE io = "ok" ->
                /\ out_file' = out
                /\ pc' = IF verify THEN "reread" ELSE "done"
                /\ UNCHANGED <<err, msg>>
           [] io = "open fails" ->
                /\ err' = "IOError"
                /\ msg' = [text |-> "Cannot open output file", args |-> <<>>]
                /\ UNCHANGED <<out_file, pc>>
           [] io = "write fails" ->
                /\ out_file' = <<>>
                /\ err' = "IOError"
                /\ msg' = [text |-> "Failed to write output file", args |-> <<>>]
                /\ UNCHANGED pc
    /\ UNCHANGED <<argv, in_file, chip_kib, type, s64k_addr, verify,
                   rom, in_banks, out, start_bank, vb, tampers>>

(***************************************************************************)
(* --verify (lines 193-219).  The file is read back from the output path;  *)
(* between write_file and the read another process may have modified it.   *)
(* The modifications change bytes and keep the length, so the file read    *)
(* back has the length of the chip and every index of the bank loop lies   *)
(* inside vb.                                                              *)
(***************************************************************************)
\* the offsets at which the file is modified: the first byte, the first and the
\* last byte of the written area, the byte after it, and the last byte
TamperOffsets ==
    {0, start_bank * BANK_SIZE, (start_bank + in_banks) * BANK_SIZE - 1,
     (start_bank + in_banks) * BANK_SIZE, Len(out_file) - 1}
      \cap (0..(Len(out_file) - 1))

Tamper ==
    /\ pc = "reread" /\ err = "none"
    /\ tampers < MaxTamper
    /\ \E o \in TamperOffsets :
         out_file' = [out_file EXCEPT ![o + 1] = IF @ = FILL THEN 0 ELSE FILL]
    /\ tampers' = tampers + 1
    /\ UNCHANGED <<pc, argv, in_file, chip_kib, type, s64k_addr, verify,
                   rom, in_banks, out, start_bank, vb, err, msg>>

VerifyReread ==
    /\ pc = "reread" /\ err = "none"
    /\ \E readable \in BOOLEAN :
         IF readable
         THEN /\ vb' = out_file
              /\ pc' = "verify"
              /\ UNCHANGED <<err, msg>>
         ELSE /\ err' = "IOError"
              /\ msg' = [text |-> "--verify: failed to read output back", args |-> <<>>]
              /\ UNCHANGED <<vb, pc>>
    /\ UNCHANGED <<argv, in_file, out_file, chip_kib, type, s64k_addr, verify,
                   rom, in_banks, out, start_bank, tampers>>

\* a bank loop that runs from the last bank down
VerifyBanksFromTop(bank, vbuf, r, start, banks) ==
    LET bad == {b \in bank..(banks - 1) :
                  \E i \in 0..(BANK_SIZE - 1) :
                      vbuf[(start + b) * BANK_SIZE + i + 1] # r[b * BANK_SIZE + i + 1]}
    IN IF bad = {} THEN banks ELSE CHOOSE m \in bad : \A x \in bad : x <= m

\* the bank loop (lines 203-210): the bank it dies in, or banks when all match
RECURSIVE VerifyBanksFrom(_, _, _, _, _)
VerifyBanksFrom(bank, vbuf, r, start, banks) ==
    IF bank >= banks THEN banks
    ELSE LET dst_off == (start + bank) * BANK_SIZE
         IN IF \E i \in 0..(BANK_SIZE - 1) : vbuf[dst_off + i + 1] # r[bank * BANK_SIZE + i + 1]
            THEN bank
            ELSE VerifyBanksFrom(bank + 1, vbuf, r, start, banks)

\* a fill loop whose written area starts one bank late
VerifyFillFailsOffByOne(vbuf, start, banks) ==
    \E i \in 0..(Len(vbuf) - 1) :
        LET bank_idx == i \div BANK_SIZE
            within_written == bank_idx > start /\ bank_idx < start + banks
        IN ~within_written /\ vbuf[i + 1] # FILL

\* the fill loop (lines 212-217): some byte outside the written area is not 0xFF
VerifyFillFails(vbuf, start, banks) ==
    \E i \in 0..(Len(vbuf) - 1) :
        LET bank_idx == i \div BANK_SIZE
            within_written == bank_idx >= start /\ bank_idx < start + banks
        IN ~within_written /\ vbuf[i + 1] # FILL

VerifyPass(vbuf, r, start, banks) ==
    LET bad == VerifyBanksFrom(0, vbuf, r, start, banks)
    IN IF bad < banks
       THEN DieNum("VerifyMismatch", "--verify: mismatch in bank", bad)
       ELSE IF VerifyFillFails(vbuf, start, banks)
       THEN Die("VerifyMismatch", "--verify: non-0xFF found outside written area")
       ELSE Ok

VerifyCheck ==
    /\ pc = "verify" /\ err = "none"
    /\ LET v == VerifyPass(vb, rom, start_bank, in_banks)
       IN /\ err' = v.err
          /\ msg' = v.msg
          /\ pc' = IF v.err = "none" THEN "done" ELSE pc
    /\ UNCHANGED <<argv, in_file, out_file, chip_kib, type, s64k_addr, verify,
                   rom, in_banks, out, start_bank, vb, tampers>>

(***************************************************************************)
(* The conversion as a function of its inputs: lines 112-180 composed.     *)
(***************************************************************************)
Failed(kind) == [err |-> kind, image |-> <<>>, start_bank |-> 0, in_banks |-> 0]

Convert(raw, chipKib, t, addr) ==
    LET r == PadRom(raw)
        banks == BankCount(r)
        c == CapacityCheck(t, Len(r), banks, chipKib * BytesPerKiB)
    IN IF c.err # "none" THEN Failed(c.err)
       ELSE LET s == StartBank(t, addr, Len(r), banks)
            IN IF s.die.err # "none" THEN Failed(s.die.err)
               ELSE LET p == PlaceBanks(Erased(chipKib * BytesPerKiB), r, s.start_bank, banks)
                    IN IF p.die.err # "none" THEN Failed(p.die.err)
                       ELSE [err |-> "none", image |-> p.out,
                             start_bank |-> s.start_bank, in_banks |-> banks]

(***************************************************************************)
(* How far a run has come.                                                 *)
(***************************************************************************)
\* the --addr option of the command line, as a set: empty when not given
HintGiven == {argv[i].num : i \in {j \in 1..Len(argv) : argv[j].opt = "--addr"}}
\* rom is padded and in_banks is computed
Normalized == pc \in {"check", "resolve", "place", "write", "reread", "verify", "done"}
\* the capacity checks have run
CapacityDecided ==
    \/ pc = "check" /\ err # "none"
    \/ pc \in {"resolve", "place", "write", "reread", "verify", "done"}
\* the start bank computation has run
Resolved ==
    \/ pc = "resolve" /\ err # "none"
    \/ pc \in {"place", "write", "reread", "verify", "done"}
\* write_file has written the output file, and nothing has modified it since
Written == pc \in {"reread", "verify", "done"} /\ tampers = 0
\* the --verify checks have run
VerifyDecided ==
    \/ pc = "verify" /\ err # "none"
    \/ pc = "done" /\ verify
\* the run is over
Ended == err # "none" \/ pc = "done"
ConversionErrors == {"CapacityError", "RangeError", "OverflowError"}

\* offset o lies in the range bank i is placed at
InRange(o, i) ==
    /\ o >= (start_bank + i) * BANK_SIZE
    /\ o < (start_bank + i) * BANK_SIZE + BANK_SIZE
InPlaced(o) == \E i \in 0..(in_banks - 1) : InRange(o, i)

\* C1: after a successful conversion the output file has the length of the chip;
\* every byte in the range of a placed bank is the byte of the padded ROM at
\* o - start_bank * 8192, every other byte is 0xFF; no two placed ranges overlap.
C1_Layout ==
    Written =>
      /\ rom = PadRom(FileBytes(in_file))
      /\ Len(out_file) = chip_kib * BytesPerKiB
      /\ \A o \in 0..(Len(out_file) - 1) :
            IF InPlaced(o)
            THEN out_file[o + 1] = rom[o - start_bank * BANK_SIZE + 1]
            ELSE out_file[o + 1] = FILL
      /\ \A i, j \in 0..(in_banks - 1) :
            i < j => (start_bank + i) * BANK_SIZE + BANK_SIZE <= (start_bank + j) * BANK_SIZE
C1_Witness ==
    /\ Written /\ pc = "done"
    /\ type = "Simple64K" /\ start_bank = 2 /\ in_banks = 4 /\ chip_kib = 64
    /\ in_file.pat = 1

\* C2: once the capacity checks have run, the run has died with CapacityError
\* exactly when the mapper is Simple64K and bank_count > 8 (whatever the chip), or
\* the padded ROM is longer than the chip; and CapacityError comes from nowhere else.
C2_Capacity ==
    /\ CapacityDecided =>
         (err = "CapacityError" <=>
            \/ type = "Simple64K" /\ in_banks > 8
            \/ Len(rom) > chip_kib * BytesPerKiB)
    /\ err = "CapacityError" => CapacityDecided
C2_Witness ==
    /\ err = "CapacityError" /\ type = "Simple64K" /\ in_banks = 9 /\ chip_kib = 512

\* C3: a run that has died with CapacityError, RangeError or OverflowError has left
\* the output file as it was; the output file differs from what it was only once
\* the capacity checks, the start bank and the placement are behind the run.
C3_NoWriteOnError ==
    /\ err \in ConversionErrors => out_file = OldSink
    /\ out_file # OldSink => pc \in {"write", "reread", "verify", "done"}
    /\ pc \in {"parse", "read", "pad", "check", "resolve", "place"} => out_file = OldSink
C3_Witness ==
    /\ err = "CapacityError" /\ in_banks = 20 /\ chip_kib = 128 /\ out_file = OldSink

\* C4 as stated: Simple64K with a hint h in 0..7 resolves start_bank = h when
\* h + bank_count <= 8 and fails with RangeError when h + bank_count > 8; a hint
\* outside 0..7 is rejected with RangeError and never used.
C4_Original ==
    /\ (type = "Simple64K" /\ s64k_addr \in 0..ADDR_MAX /\ Normalized) =>
         IF s64k_addr + in_banks <= 8
         THEN /\ err \notin ConversionErrors
              /\ Resolved => start_bank = s64k_addr
         ELSE Ended => err = "RangeError"
    /\ \A h \in HintGiven :
         h \notin 0..ADDR_MAX => /\ pc = "parse"
                                 /\ err \in {"none", "RangeError"}

\* C4 amended: when h + bank_count > 8 the run fails with RangeError if
\* bank_count <= 8, and with CapacityError, before the hint is looked at, if
\* bank_count > 8.
C4_Hint ==
    /\ (type = "Simple64K" /\ s64k_addr \in 0..ADDR_MAX /\ CapacityDecided) =>
         IF s64k_addr + in_banks <= 8
         THEN /\ err \notin ConversionErrors
              /\ Resolved => start_bank = s64k_addr
         ELSE IF in_banks <= 8
         THEN /\ err \in {"none", "RangeError"}
              /\ Resolved => err = "RangeError" /\ pc = "resolve"
         ELSE err = "CapacityError" /\ pc = "check"
    /\ \A h \in HintGiven :
         h \notin 0..ADDR_MAX => /\ pc = "parse"
                                 /\ err \in {"none", "RangeError"}
C4_Witness ==
    /\ type = "Simple64K" /\ s64k_addr = 7 /\ in_banks = 2
    /\ pc = "resolve" /\ err = "RangeError"

\* C5: Simple64K without --addr: start_bank is 2 when the padded length in KiB is
\* at most 32 (at most 4 banks, the empty ROM included) and 0 otherwise; exactly
\* 32 KiB starts at 2 and 32 KiB + 1 byte (5 banks) at 0.  The right-hand side
\* reads the padded length alone, over every ROM content and chip of the model.
C5_AutoStart ==
    (type = "Simple64K" /\ HintGiven = {} /\ Resolved) =>
      /\ start_bank = (IF Len(rom) \div BytesPerKiB <= 32 THEN 2 ELSE 0)
      /\ start_bank = (IF in_banks <= 4 THEN 2 ELSE 0)
      /\ in_file.len = 0 => in_banks = 0 /\ start_bank = 2
      /\ in_file.len = 32 * BytesPerKiB => in_banks = 4 /\ start_bank = 2
      /\ in_file.len = 32 * BytesPerKiB + 1 => in_banks = 5 /\ start_bank = 0
C5_Witness ==
    /\ type = "Simple64K" /\ HintGiven = {} /\ pc = "done"
    /\ in_file.len = 32 * BytesPerKiB + 1 /\ in_banks = 5 /\ start_bank = 0

\* what the run has produced, once the conversion is over
RunResult ==
    IF err \in ConversionErrors THEN Failed(err)
    ELSE [err |-> "none", image |-> out_file, start_bank |-> start_bank, in_banks |-> in_banks]
OtherMapper(t) == IF t = "MegaSCC" THEN "RC755" ELSE "MegaSCC"

\* C6: with MegaSCC or RC755 the start bank is 0, with or without --addr; and the run
\* ends as the conversion of the same file for the same chip with the other of the two
\* mappers does, under every accepted hint or none: both fail, or both succeed with
\* the same output image, start_bank and bank_count.
C6_MegaRc755 ==
    (type \in {"MegaSCC", "RC755"} /\ pc # "parse") =>
      /\ start_bank = 0
      /\ (err \in ConversionErrors \/ Written) =>
           \A h \in {NO_ADDR} \cup (0..ADDR_MAX) :
              RunResult = Convert(FileBytes(in_file), chip_kib, OtherMapper(type), h)
C6_Witness ==
    /\ type = "RC755" /\ s64k_addr = 3 /\ pc = "done" /\ Written
    /\ in_banks = 5 /\ in_file.pat = 1

\* C7: --verify on the output file as written succeeds; the verify steps change
\* neither the output file nor rom, out, start_bank or in_banks; and the file
\* written is the conversion's image, which does not depend on --verify.
C7_RoundTrip ==
    /\ [](/\ VerifyDecided /\ vb = out => err = "none"
          /\ Written => out_file = Convert(FileBytes(in_file), chip_kib, type, s64k_addr).image)
    /\ [][(pc \in {"reread", "verify"} /\ tampers' = tampers) =>
            (UNCHANGED <<out_file, rom, out, start_bank, in_banks>>)]_vars
C7_Witness ==
    /\ pc = "done" /\ verify /\ vb = out /\ in_banks = 4 /\ start_bank = 2
    /\ in_file.pat = 1

Min(S) == CHOOSE m \in S : \A x \in S : m <= x
\* the banks of the ROM that differ from their range of the file read back
BadBanks ==
    {i \in 0..(in_banks - 1) :
        \E k \in 0..(BANK_SIZE - 1) :
            vb[(start_bank + i) * BANK_SIZE + k + 1] # rom[i * BANK_SIZE + k + 1]}
\* the offsets outside every placed range that do not hold 0xFF
BadFill == {o \in 0..(Len(vb) - 1) : ~InPlaced(o) /\ vb[o + 1] # FILL}

C9_Padding ==
    Normalized =>
      LET L == in_file.len IN
      /\ Len(rom) % BANK_SIZE = 0 /\ Len(rom) >= L /\ Len(rom) - L < BANK_SIZE
      /\ L % BANK_SIZE = 0 => rom = FileBytes(in_file)
      /\ \A i \in 1..Len(rom) : rom[i] = (IF i <= L THEN FileBytes(in_file)[i] ELSE FILL)
      /\ in_banks * BANK_SIZE = Len(rom)
      /\ PadRom(rom) = rom
C9_Witness ==
    /\ pc = "check" /\ in_file.len = 8 * BANK_SIZE + 1 /\ in_banks = 9 /\ in_file.pat = 1

\* C10: no run dies with OverflowError; Simple64K without --addr never dies with
\* RangeError, its start_bank + bank_count is at most 8; and once the start bank
\* is computed without error, (start_bank + bank_count) * 8192 is within the output.
C10_DefensiveChecks ==
    /\ err # "OverflowError"
    /\ (type = "Simple64K" /\ HintGiven = {}) =>
         /\ err # "RangeError"
         /\ Resolved => start_bank + in_banks <= 8
    /\ pc \in {"place", "write", "reread", "verify", "done"} =>
         (start_bank + in_banks) * BANK_SIZE <= Len(out)
C10_Witness ==
    /\ type = "Simple64K" /\ HintGiven = {} /\ in_banks = 8 /\ chip_kib = 64
    /\ start_bank = 0 /\ pc = "done"

Init ==
    /\ pc = "parse"
    /\ \E c \in ChipOpts, t \in TypeOpts, a \in AddrOpts, v \in VerifyOpts :
         argv = c \o t \o a \o v
    /\ in_file \in [len : RawLengths, pat : Patterns]
    /\ out_file = OldSink
    /\ chip_kib = DEFAULT_CHIP_KIB
    /\ type = "MegaSCC"
    /\ s64k_addr = NO_ADDR
    /\ verify = FALSE
    /\ rom = <<>>
    /\ in_banks = 0
    /\ out = <<>>
    /\ start_bank = 0
    /\ vb = <<>>
    /\ tampers = 0
    /\ err = "none"
    /\ msg = NoMsg

Next ==
    \/ Parse
    \/ ReadFile
    \/ Pad
    \/ CheckCapacity
    \/ Resolve
    \/ Place
    \/ WriteFile
    \/ Tamper
    \/ VerifyReread
    \/ VerifyCheck

Spec == Init /\ [][Next]_vars
=============================================================================
